---- MODULE Spec2Model ----
(***************************************************************************)
(* Model of the chat proxy route src/app/api/chat/route.ts:                *)
(*   - the message-history normalizer (buildMessageHistory,                *)
(*     normalizeMessages, validateMessageSequence),                        *)
(*   - the POST pipeline up to the response (validation, configuration,    *)
(*     upstream fetch with the timeout timer, upstream error mapping),     *)
(*   - the re-framing ReadableStream built by createResponseStream.        *)
(*                                                                         *)
(* Texts are sequences of tokens (a string is the concatenation of its     *)
(* tokens), so that joining, tagging and concatenation are computed and    *)
(* not assumed.  A thrown JavaScript exception is a record                 *)
(* [api, name, status, msg]: api is "error instanceof ApiError".           *)
(***************************************************************************)
EXTENDS Integers, Sequences, FiniteSets, TLC

VARIABLES
  pc,          \* position of the request: see the actions
  req,         \* the parsed request body and how it parsed
  apiKey,      \* process.env.DEEPSEEK_API_KEY is set
  history,     \* the messages built by buildMessageHistory
  normErr,     \* the error thrown by normalizeMessages, NoError if none
  timer,       \* "unset", "armed", "cleared": the setTimeout of createDeepSeekStream
  aborted,     \* controller.abort() was called
  upCalls,     \* number of fetch calls issued
  upStatus,    \* status of the resolved upstream response, 0 if none
  response,    \* the Response returned by POST
  spc,         \* position of start() of the outbound stream
  body,        \* response.body of the upstream response: "present" or "null"
  handled,     \* the upstream events handed to the parser callback, in order
  fed,         \* the upstream events fed to the parser, in order
  upEnd,       \* how the upstream body ended: "open", "done", "failed"
  stream,      \* the outbound ReadableStream: state, closeRequested, queue, storedError
  readReqs,    \* pending read requests of the consumer of the outbound stream
  delivered,   \* chunks the consumer has received, in order
  thrown       \* an exception escaped parser.feed during start()

vars == <<pc, req, apiKey, history, normErr, timer, aborted, upCalls, upStatus,
          response, spc, body, handled, fed, upEnd, stream, readReqs,
          delivered, thrown>>

reqVars == <<pc, req, apiKey, history, normErr, timer, aborted, upCalls, upStatus, response>>
streamVars == <<spc, body, handled, fed, upEnd, stream, readReqs, delivered, thrown>>

----------------------------------------------------------------------------
(* Bounds *)
MaxNormMsgs == 3     \* client messages per request in the normalizer specification
MaxReqMsgs == 2      \* client messages per request in the request specification
MaxChunkEvents == 2  \* upstream events completed by one upstream chunk
MaxEvents == 3       \* upstream events fed to the parser in one run

----------------------------------------------------------------------------
(* Errors *)
NoError == [api |-> FALSE, name |-> "none", status |-> 0, msg |-> "none"]
\* class ApiError extends Error
ApiError(message, status) == [api |-> TRUE, name |-> "ApiError", status |-> status, msg |-> message]
\* an Error that is not an ApiError: TypeError (null dereference, network failure), AbortError
JsError(name) == [api |-> FALSE, name |-> name, status |-> 0, msg |-> name]

API_ERROR_MESSAGES ==
  [DEFAULT |-> "DEFAULT", RATE_LIMIT |-> "RATE_LIMIT", INVALID_KEY |-> "INVALID_KEY",
   BAD_REQUEST |-> "BAD_REQUEST", SERVICE_UNAVAILABLE |-> "SERVICE_UNAVAILABLE",
   TIMEOUT |-> "TIMEOUT", STREAM_FAILED |-> "STREAM_FAILED", PARSE_ERROR |-> "PARSE_ERROR",
   INVALID_MESSAGE_SEQUENCE |-> "INVALID_MESSAGE_SEQUENCE",
   REASONING_CONTENT_NOT_ALLOWED |-> "REASONING_CONTENT_NOT_ALLOWED"]

----------------------------------------------------------------------------
(* Messages.  isNull marks an array element that is JSON null; reasoning   *)
(* is <<>> when reasoning_content is absent or empty.                      *)
Msg(role, content) == [isNull |-> FALSE, role |-> role, content |-> content, reasoning |-> <<>>]
NullMsg == [isNull |-> TRUE, role |-> "", content |-> <<>>, reasoning |-> <<>>]
NL == "\n"

SeqsUpTo(S, n) == UNION {[1..k -> S] : k \in 0..n}

\* validateMessageSequence throws when two adjacent roles are equal
validateMessageSequence(messages) ==
  IF \E i \in 2..Len(messages) : messages[i].role = messages[i-1].role
  THEN ApiError(API_ERROR_MESSAGES.INVALID_MESSAGE_SEQUENCE, 400)
  ELSE NoError

\* the reducer callback of normalizeMessages
MutReducerNoMerge(acc, curr, index) == Append(acc, curr)
MutReducerReplace(acc, curr, index) ==
  IF index = 1 THEN Append(acc, curr)
  ELSE IF acc[Len(acc)].role = curr.role
       THEN [acc EXCEPT ![Len(acc)].content = curr.content]
       ELSE Append(acc, curr)
MutReducerDropFirst(acc, curr, index) ==
  IF index = 1 THEN acc
  ELSE IF acc # <<>> /\ acc[Len(acc)].role = curr.role
       THEN [acc EXCEPT ![Len(acc)].content = acc[Len(acc)].content \o <<NL>> \o curr.content]
       ELSE Append(acc, curr)
MutReducerPrepend(acc, curr, index) ==
  IF index = 1 THEN Append(acc, curr)
  ELSE IF acc[Len(acc)].role = curr.role
       THEN [acc EXCEPT ![Len(acc)].content = curr.content \o <<NL>> \o acc[Len(acc)].content]
       ELSE Append(acc, curr)
Reducer(acc, curr, index) ==
  IF index = 1 THEN Append(acc, curr)
  ELSE LET prevMsg == acc[Len(acc)] IN
       IF prevMsg.role = curr.role
       THEN [acc EXCEPT ![Len(acc)].content = prevMsg.content \o <<NL>> \o curr.content]
       ELSE Append(acc, curr)

RECURSIVE Reduce(_, _, _)
Reduce(messages, acc, index) ==
  IF index > Len(messages) THEN acc
  ELSE Reduce(messages, Reducer(acc, messages[index], index), index + 1)

\* normalizeMessages: the merged list, or the error of the post-merge check
normalizeMessages(messages) ==
  LET normalized == Reduce(messages, <<>>, 1)
      err == validateMessageSequence(normalized)
  IN [err |-> err, val |-> IF err = NoError THEN normalized ELSE <<>>]

buildMessageHistory(prompt, messages, input) ==
  normalizeMessages(<<Msg("system", prompt)>> \o messages \o <<Msg("user", input)>>)

----------------------------------------------------------------------------
(* The POST pipeline *)

\* validateAndParseRequest: every failure inside its try block becomes ApiError 400
validateAndParseRequest(r) ==
  IF r.parse # "ok" THEN ApiError("INVALID_PARAMS", 400)
  ELSE IF r.prompt = <<>> \/ ~r.isArray \/ r.input = <<>> THEN ApiError("INVALID_PARAMS", 400)
  ELSE NoError

\* validateNoReasoningContent: the for-of loop stops at the first element that throws;
\* reading a property of a null element is a TypeError
RECURSIVE validateNoReasoningContent(_)
validateNoReasoningContent(messages) ==
  IF messages = <<>> THEN NoError
  ELSE IF Head(messages).isNull THEN JsError("TypeError")
  ELSE IF Head(messages).reasoning # <<>>
       THEN ApiError(API_ERROR_MESSAGES.REASONING_CONTENT_NOT_ALLOWED, 400)
  ELSE validateNoReasoningContent(Tail(messages))

\* getApiConfig
getApiConfig(key) == IF ~key THEN ApiError("KEY_NOT_CONFIGURED", 500) ELSE NoError

\* the catch block of POST: the JSON error response
MutErrorResponseAlways500(error) == [kind |-> "json", status |-> 500, error |-> error.msg]
ErrorResponse(error) ==
  [kind |-> "json", status |-> IF error.api THEN error.status ELSE 500, error |-> error.msg]
StreamResponse == [kind |-> "stream", status |-> 200, error |-> "none"]
NoResponse == [kind |-> "none", status |-> 0, error |-> "none"]

\* response.ok
Ok(status) == status \in 200..299

\* getErrorData: the message for a non-success status; detail is "" when the body
\* does not parse as JSON with an error.message
getErrorData(status, detail) ==
  CASE status = 429 -> API_ERROR_MESSAGES.RATE_LIMIT
    [] status = 401 -> API_ERROR_MESSAGES.INVALID_KEY
    [] status = 400 -> IF detail # "" THEN "BAD_REQUEST: detail" ELSE "BAD_REQUEST: DEFAULT"
    [] status = 503 -> API_ERROR_MESSAGES.SERVICE_UNAVAILABLE
    [] OTHER -> IF detail # "" THEN "DEFAULT (status): detail" ELSE "DEFAULT (status): DEFAULT"

\* validateApiResponse: returns, throws the 401 error at once, or reads the error body
MutValidateApiResponse(status) == IF Ok(status) THEN "return" ELSE "readBody"
validateApiResponse(status) ==
  IF Ok(status) THEN "return"
  ELSE IF status = 401 THEN "throw401"
  ELSE "readBody"

\* handleStreamError: what it throws for the error it is given
MutHandleStreamError(error) == IF error.name = "AbortError" THEN JsError("AbortError") ELSE error
handleStreamError(error) ==
  IF error.name = "AbortError" THEN ApiError(API_ERROR_MESSAGES.TIMEOUT, 408) ELSE error

\* the catch block of createDeepSeekStream: what it throws to POST
StreamCatch(error) ==
  IF error.api /\ error.status = 401 THEN ApiError(API_ERROR_MESSAGES.INVALID_KEY, 401)
  ELSE handleStreamError(error)

----------------------------------------------------------------------------
(* Requests, upstream statuses and the initial state of the request specification *)
ReqElems ==
  { NullMsg, Msg("user", <<"m">>), Msg("assistant", <<"m">>),
    [Msg("user", <<"m">>) EXCEPT !.reasoning = <<"rc">>] }

Requests ==
  { [parse |-> "invalid", prompt |-> <<>>, isArray |-> FALSE, messages |-> <<>>, input |-> <<>>] }
  \cup { [parse |-> "ok", prompt |-> p, isArray |-> FALSE, messages |-> <<>>, input |-> i] :
            p \in {<<>>, <<"p">>}, i \in {<<>>, <<"i">>} }
  \cup { [parse |-> "ok", prompt |-> p, isArray |-> TRUE, messages |-> m, input |-> i] :
            p \in {<<>>, <<"p">>}, i \in {<<>>, <<"i">>}, m \in SeqsUpTo(ReqElems, MaxReqMsgs) }

CanonicalRequest ==
  [parse |-> "ok", prompt |-> <<"p">>, isArray |-> TRUE, messages |-> <<>>, input |-> <<"i">>]

Statuses == {200, 400, 401, 404, 429, 503}

NoStream == [state |-> "none", closeRequested |-> FALSE, queue |-> <<>>, storedError |-> "none"]

StreamIdle ==
  /\ spc = "none" /\ body = "present" /\ handled = <<>> /\ fed = <<>>
  /\ upEnd = "open" /\ stream = NoStream /\ readReqs = 0 /\ delivered = <<>>
  /\ thrown = FALSE

Init ==
  /\ pc = "received"
  /\ req \in Requests
  /\ apiKey \in BOOLEAN
  /\ history = <<>> /\ normErr = NoError
  /\ timer = "unset" /\ aborted = FALSE /\ upCalls = 0 /\ upStatus = 0
  /\ response = NoResponse
  /\ StreamIdle

\* POST answers with the JSON error response; the finally block of
\* createDeepSeekStream has cleared the timer when it was set
Respond(resp) ==
  /\ response' = resp
  /\ pc' = "responded"

\* POST, lines 47-51, up to the await of fetch in makeApiRequest
Receive ==
  /\ pc = "received"
  /\ LET e1 == validateAndParseRequest(req)
         e2 == validateNoReasoningContent(req.messages)
         h  == buildMessageHistory(req.prompt, req.messages, req.input)
         e4 == getApiConfig(apiKey)
         err == IF e1 # NoError THEN e1
                ELSE IF e2 # NoError THEN e2
                ELSE IF h.err # NoError THEN h.err
                ELSE e4
     IN /\ normErr' = IF e1 = NoError /\ e2 = NoError THEN h.err ELSE NoError
        /\ IF err # NoError
           THEN /\ Respond(ErrorResponse(err))
                /\ UNCHANGED <<history, timer, upCalls>>
           ELSE /\ history' = h.val
                /\ timer' = "armed"
                /\ upCalls' = upCalls + 1
                /\ pc' = "fetching"
                /\ UNCHANGED response
  /\ UNCHANGED <<req, apiKey, aborted, upStatus>>
  /\ UNCHANGED streamVars

\* the setTimeout callback: controller.abort() rejects the pending fetch or the
\* pending read of the error body with an AbortError
TimerFires ==
  /\ timer = "armed"
  /\ pc \in {"fetching", "readingErrBody"}
  /\ aborted' = TRUE
  /\ timer' = "cleared"
  /\ Respond(ErrorResponse(StreamCatch(JsError("AbortError"))))
  /\ UNCHANGED <<req, apiKey, history, normErr, upCalls, upStatus>>
  /\ UNCHANGED streamVars

\* fetch resolves with the upstream response; validateApiResponse runs in the
\* same turn of the event loop: lines 239-262, the request's side
MutResolveRequestNoClear(status) ==
  /\ pc = "fetching"
  /\ upStatus' = status
  /\ LET v == validateApiResponse(status) IN
       CASE v = "return" ->
              /\ Respond(StreamResponse)
              /\ UNCHANGED timer
         [] v = "throw401" ->
              /\ timer' = "cleared"
              /\ Respond(ErrorResponse(StreamCatch(ApiError(API_ERROR_MESSAGES.INVALID_KEY, 401))))
         [] OTHER ->
              /\ pc' = "readingErrBody"
              /\ UNCHANGED <<timer, response>>
  /\ UNCHANGED <<req, apiKey, history, normErr, aborted, upCalls>>
ResolveRequest(status) ==
  /\ pc = "fetching"
  /\ upStatus' = status
  /\ LET v == validateApiResponse(status) IN
       CASE v = "return" ->
              /\ timer' = "cleared"
              /\ Respond(StreamResponse)
         [] v = "throw401" ->
              /\ timer' = "cleared"
              /\ Respond(ErrorResponse(StreamCatch(ApiError(API_ERROR_MESSAGES.INVALID_KEY, 401))))
         [] OTHER ->
              /\ pc' = "readingErrBody"
              /\ UNCHANGED <<timer, response>>
  /\ UNCHANGED <<req, apiKey, history, normErr, aborted, upCalls>>

FetchResolves(status) ==
  /\ ResolveRequest(status)
  /\ UNCHANGED streamVars

\* fetch rejects with a network failure
MutFetchFailsRetry ==
  /\ pc = "fetching"
  /\ upCalls < 3
  /\ upCalls' = upCalls + 1
  /\ UNCHANGED <<pc, req, apiKey, history, normErr, timer, aborted, upStatus, response>>
  /\ UNCHANGED streamVars
FetchFails ==
  /\ pc = "fetching"
  /\ timer' = "cleared"
  /\ Respond(ErrorResponse(StreamCatch(JsError("TypeError"))))
  /\ UNCHANGED <<req, apiKey, history, normErr, aborted, upCalls, upStatus>>
  /\ UNCHANGED streamVars

\* response.text() of the error body resolves: getErrorData, then the ApiError
ErrBodyRead(detail) ==
  /\ pc = "readingErrBody"
  /\ timer' = "cleared"
  /\ Respond(ErrorResponse(StreamCatch(ApiError(getErrorData(upStatus, detail), upStatus))))
  /\ UNCHANGED <<req, apiKey, history, normErr, aborted, upCalls, upStatus>>
  /\ UNCHANGED streamVars

\* response.text() of the error body rejects with a network failure
ErrBodyFails ==
  /\ pc = "readingErrBody"
  /\ timer' = "cleared"
  /\ Respond(ErrorResponse(StreamCatch(JsError("TypeError"))))
  /\ UNCHANGED <<req, apiKey, history, normErr, aborted, upCalls, upStatus>>
  /\ UNCHANGED streamVars

Next ==
  \/ Receive
  \/ TimerFires
  \/ \E status \in Statuses : FetchResolves(status)
  \/ FetchFails
  \/ \E detail \in {"", "detail"} : ErrBodyRead(detail)
  \/ ErrBodyFails

Spec == Init /\ [][Next]_vars

\* the runtime runs the handler, and the timer set by setTimeout fires while armed
SpecFair == Spec /\ WF_vars(Receive) /\ WF_vars(TimerFires)

----------------------------------------------------------------------------
(* The outbound ReadableStream and its default controller (WHATWG Streams),  *)
(* as used by createResponseStream.  K is the record                         *)
(* [st: the stream, rr: pending read requests, dl: chunks delivered,         *)
(*  thrown: an exception is propagating].                                    *)

\* ReadableStreamDefaultControllerCanCloseOrEnqueue
CanCloseOrEnqueue(K) == K.st.state = "readable" /\ ~K.st.closeRequested

\* controller.enqueue(chunk): TypeError when the stream cannot take it; a pending
\* read request gets the chunk directly, otherwise it is queued
Enqueue(K, chunk) ==
  IF ~CanCloseOrEnqueue(K) THEN [K EXCEPT !.thrown = TRUE]
  ELSE IF K.rr > 0 THEN [K EXCEPT !.rr = K.rr - 1, !.dl = Append(K.dl, chunk)]
  ELSE [K EXCEPT !.st.queue = Append(K.st.queue, chunk)]

\* controller.close(): TypeError when already closing or not readable; the stream
\* closes at once when the queue is empty, else when the queue has drained
Close(K) ==
  IF ~CanCloseOrEnqueue(K) THEN [K EXCEPT !.thrown = TRUE]
  ELSE IF K.st.queue = <<>>
       THEN [K EXCEPT !.st.closeRequested = TRUE, !.st.state = "closed", !.rr = 0]
       ELSE [K EXCEPT !.st.closeRequested = TRUE]

\* controller.error(e): no effect unless the stream is readable; it drops the queue
Error(K, e) ==
  IF K.st.state # "readable" THEN K
  ELSE [K EXCEPT !.st.state = "errored", !.st.queue = <<>>, !.st.storedError = e, !.rr = 0]

----------------------------------------------------------------------------
(* Upstream events, as the SSE parser hands them to the callback.  json is  *)
(* what JSON.parse(data) gives: "invalid" (it throws), "null", "nodelta"    *)
(* (choices?.[0]?.delta is undefined) or "delta"; the fragments are "" when *)
(* absent or empty.                                                         *)
Event(data, json, r, c) == [data |-> data, json |-> json, reasoning_content |-> r, content |-> c]
EvDone == Event("[DONE]", "invalid", "", "")
EvKeepAlive == Event("keep-alive", "invalid", "", "")
EvText == Event("text", "invalid", "", "")
EvNull == Event("json", "null", "", "")
EvNoDelta == Event("json", "nodelta", "", "")
EvDelta(r, c) == Event("json", "delta", r, c)
Events ==
  {EvDone, EvKeepAlive, EvText, EvNull, EvNoDelta}
  \cup { EvDelta(r, c) : r \in {"", "r1"}, c \in {"", "c1"} }

ReasoningChunk(r) == <<"[Reasoning]", r, "[/Reasoning]">>
ContentChunk(c) == <<"[Content]", c, "[/Content]">>
NoticeChunk == <<API_ERROR_MESSAGES.PARSE_ERROR, NL>>

\* the try block of the parser callback, lines 283-305: the stream after it, with
\* thrown set when it raised (JSON.parse, the read of null.choices, or enqueue)
TryBlock(K, ev) ==
  IF ev.json = "invalid" \/ ev.json = "null" THEN [K EXCEPT !.thrown = TRUE]
  ELSE IF ev.json = "nodelta" THEN K
  ELSE LET K1 == IF ev.reasoning_content # ""
                 THEN Enqueue(K, ReasoningChunk(ev.reasoning_content)) ELSE K
       IN IF K1.thrown THEN K1
          ELSE IF ev.content # "" THEN Enqueue(K1, ContentChunk(ev.content)) ELSE K1

\* the catch block of the parser callback, lines 306-311
ParseCatch(K) ==
  LET K1 == Enqueue([K EXCEPT !.thrown = FALSE], NoticeChunk)
  IN IF K1.thrown THEN K1 ELSE Close(K1)

\* the parser callback, lines 270-313
MutCallbackKeepAliveCloses(K, ev) ==
  IF ev.data = "[DONE]" \/ ev.data = "keep-alive" THEN Close(K)
  ELSE LET T == TryBlock(K, ev) IN
       IF T.thrown THEN ParseCatch(T) ELSE T
Callback(K, ev) ==
  IF ev.data = "[DONE]" THEN Close(K)
  ELSE IF ev.data = "keep-alive" THEN K
  ELSE LET T == TryBlock(K, ev) IN
       IF T.thrown THEN ParseCatch(T) ELSE T

\* parser.feed(chunk): the callback runs for each event of the chunk, in order,
\* until one raises; n counts the events handed to the callback
RECURSIVE Feed(_, _, _)
Feed(K, chunk, n) ==
  IF chunk = <<>> \/ K.thrown THEN [K |-> K, n |-> n]
  ELSE Feed(Callback(K, Head(chunk)), Tail(chunk), n + 1)

\* the catch block of start(), lines 328-331
StartCatch(K) == Error([K EXCEPT !.thrown = FALSE], API_ERROR_MESSAGES.STREAM_FAILED)

SubSeqTo(s, n) == SubSeq(s, 1, n)

----------------------------------------------------------------------------
(* The stream alone: Init is the state in which createResponseStream       *)
(* returns, start() having run up to its first await.                      *)
Readable == [state |-> "readable", closeRequested |-> FALSE, queue |-> <<>>, storedError |-> "none"]
K0 == [st |-> Readable, rr |-> 0, dl |-> <<>>, thrown |-> FALSE]

InitStream ==
  /\ pc = "responded"
  /\ req = CanonicalRequest
  /\ apiKey = TRUE
  /\ history = buildMessageHistory(req.prompt, req.messages, req.input).val
  /\ normErr = NoError
  /\ timer = "cleared" /\ aborted = FALSE /\ upCalls = 1 /\ upStatus = 200
  /\ response = StreamResponse
  /\ body \in {"present", "null"}
  /\ handled = <<>> /\ fed = <<>> /\ upEnd = "open"
  /\ readReqs = 0 /\ delivered = <<>> /\ thrown = FALSE
  /\ IF body = "null"
     THEN stream = StartCatch(K0).st /\ spc = "finished"
     ELSE stream = Readable /\ spc = "reading"

\* reader.read() resolves with a chunk: decode, parser.feed, and the catch block
\* when the callback raised
ReadChunk(chunk) ==
  /\ spc = "reading" /\ upEnd = "open"
  /\ Len(fed) + Len(chunk) <= MaxEvents
  /\ LET F == Feed([st |-> stream, rr |-> readReqs, dl |-> delivered, thrown |-> FALSE], chunk, 0)
         K == IF F.K.thrown THEN StartCatch(F.K) ELSE F.K
     IN /\ stream' = K.st
        /\ readReqs' = K.rr
        /\ delivered' = K.dl
        /\ thrown' = (thrown \/ F.K.thrown)
        /\ spc' = IF F.K.thrown THEN "finished" ELSE "reading"
        /\ handled' = handled \o SubSeqTo(chunk, F.n)
  /\ fed' = fed \o chunk
  /\ UNCHANGED <<body, upEnd>>
  /\ UNCHANGED reqVars

\* reader.read() resolves with done: break, start() returns
ReadDone ==
  /\ spc = "reading" /\ upEnd = "open"
  /\ upEnd' = "done"
  /\ spc' = "finished"
  /\ UNCHANGED <<body, handled, fed, stream, readReqs, delivered, thrown>>
  /\ UNCHANGED reqVars

\* reader.read() rejects: the catch block of start()
ReadFails ==
  /\ spc = "reading" /\ upEnd = "open"
  /\ upEnd' = "failed"
  /\ spc' = "finished"
  /\ LET K == StartCatch([st |-> stream, rr |-> readReqs, dl |-> delivered, thrown |-> TRUE])
     IN /\ stream' = K.st
        /\ readReqs' = K.rr
        /\ delivered' = K.dl
  /\ UNCHANGED <<body, handled, fed, thrown>>
  /\ UNCHANGED reqVars

\* the consumer of the response body reads from the outbound stream: it takes the
\* head of the queue (the stream closes when a requested close finds the queue
\* drained), or leaves a pending read request
ConsumerRead ==
  /\ stream.state = "readable"
  /\ IF stream.queue # <<>>
     THEN /\ delivered' = Append(delivered, Head(stream.queue))
          /\ stream' = [stream EXCEPT !.queue = Tail(stream.queue),
                                       !.state = IF stream.closeRequested /\ Tail(stream.queue) = <<>>
                                                 THEN "closed" ELSE "readable"]
          /\ UNCHANGED readReqs
     ELSE /\ readReqs = 0
          /\ readReqs' = 1
          /\ UNCHANGED <<delivered, stream>>
  /\ UNCHANGED <<spc, body, handled, fed, upEnd, thrown>>
  /\ UNCHANGED reqVars

NextStream ==
  \/ \E chunk \in SeqsUpTo(Events, MaxChunkEvents) \ {<<>>} : ReadChunk(chunk)
  \/ ReadDone
  \/ ReadFails
  \/ ConsumerRead

SpecStream == InitStream /\ [][NextStream]_vars

----------------------------------------------------------------------------
(* The whole life of a request: the POST pipeline, and the outbound stream  *)
(* that createDeepSeekStream returns when the upstream response is ok.      *)

\* createResponseStream: start() runs up to its first await inside the constructor
CreateStream(b) ==
  /\ body' = b
  /\ handled' = <<>> /\ fed' = <<>> /\ upEnd' = "open"
  /\ readReqs' = 0 /\ delivered' = <<>> /\ thrown' = FALSE
  /\ IF b = "null"
     THEN stream' = StartCatch(K0).st /\ spc' = "finished"
     ELSE stream' = Readable /\ spc' = "reading"

FetchResolvesStream(status) ==
  /\ ResolveRequest(status)
  /\ IF Ok(status)
     THEN \E b \in {"present", "null"} : CreateStream(b)
     ELSE UNCHANGED streamVars

NextLife ==
  \/ Receive
  \/ TimerFires
  \/ \E status \in Statuses : FetchResolvesStream(status)
  \/ FetchFails
  \/ \E detail \in {"", "detail"} : ErrBodyRead(detail)
  \/ ErrBodyFails
  \/ \E chunk \in SeqsUpTo(Events, MaxChunkEvents) \ {<<>>} : ReadChunk(chunk)
  \/ ReadDone
  \/ ReadFails
  \/ ConsumerRead

SpecLife == Init /\ [][NextLife]_vars

----------------------------------------------------------------------------
(* The normalizer alone: Init draws the history inputs, Normalize applies  *)
(* buildMessageHistory to them.                                            *)
NormRoles == {"system", "user", "assistant", "tool"}
NormElems == { Msg(r, c) : r \in NormRoles, c \in {<<"a">>, <<"b">>} }

InitNorm ==
  /\ pc = "norm"
  /\ req \in { [parse |-> "ok", prompt |-> <<"p">>, isArray |-> TRUE, messages |-> m,
                 input |-> <<"i">>] : m \in SeqsUpTo(NormElems, MaxNormMsgs) }
  /\ apiKey = TRUE
  /\ history = <<>> /\ normErr = NoError
  /\ timer = "unset" /\ aborted = FALSE /\ upCalls = 0 /\ upStatus = 0
  /\ response = NoResponse
  /\ StreamIdle

Normalize ==
  /\ pc = "norm"
  /\ LET h == buildMessageHistory(req.prompt, req.messages, req.input) IN
       /\ history' = h.val
       /\ normErr' = h.err
  /\ pc' = "normalized"
  /\ UNCHANGED <<req, apiKey, timer, aborted, upCalls, upStatus, response>>
  /\ UNCHANGED streamVars

\* normalizeMessages applied again, to its own output
Renormalize ==
  /\ pc = "normalized"
  /\ LET h == normalizeMessages(history) IN
       /\ history' = h.val
       /\ normErr' = h.err
  /\ pc' = "renormalized"
  /\ UNCHANGED <<req, apiKey, timer, aborted, upCalls, upStatus, response>>
  /\ UNCHANGED streamVars

NextNorm == Normalize \/ Renormalize

SpecNorm == InitNorm /\ [][NextNorm]_vars

----------------------------------------------------------------------------
(* Claims *)

\* the sequence handed to normalizeMessages for the current request
Candidate == <<Msg("system", req.prompt)>> \o req.messages \o <<Msg("user", req.input)>>
HasAdjacentEqualRoles(ms) == \E i \in 2..Len(ms) : ms[i].role = ms[i-1].role

\* C2: normalizeMessages never raises the invalid-message-sequence error; its
\* output begins with a system message and no two adjacent elements have the
\* same role.
C2_NormalizeNeverRaises ==
  pc = "normalized" =>
    /\ normErr = NoError
    /\ Len(history) >= 1 /\ history[1].role = "system"
    /\ ~HasAdjacentEqualRoles(history)
C2_Witness ==
  /\ pc = "normalized" /\ normErr = NoError
  /\ HasAdjacentEqualRoles(Candidate)
  /\ Len(history) = 3

\* C3: a request with a non-empty reasoning_content in some client message
\* ends with a JSON error of status 400 and no upstream request.
HasReasoning == \E i \in 1..Len(req.messages) : req.messages[i].reasoning # <<>>
C3_ReasoningRejected400 ==
  (pc = "responded" /\ HasReasoning) =>
    /\ response.kind = "json" /\ response.status = 400
    /\ upCalls = 0

\* C6: when the timer fires before the upstream response has begun, the request
\* is aborted and the client gets the JSON error with status 408 and no stream.
C6_TimeoutBeforeResponse408 ==
  (aborted /\ upStatus = 0) =>
    /\ pc = "responded"
    /\ response.kind = "json" /\ response.status = 408
    /\ response.error = API_ERROR_MESSAGES.TIMEOUT
C6_Witness ==
  aborted /\ upStatus = 0 /\ upCalls = 1 /\ response.status = 408

\* C7: an upstream 401 gives the JSON error with status 401 and never a stream,
\* whatever the timer does.
C7_Upstream401 ==
  upStatus = 401 =>
    /\ pc = "responded"
    /\ response.kind = "json" /\ response.status = 401
    /\ ~aborted
C7_Witness ==
  upStatus = 401 /\ response.kind = "json" /\ response.status = 401

\* C8: a non-success upstream status S gives the JSON error with status S in
\* every interleaving of the error-body read with the timer.
C8_UpstreamStatusCarried ==
  (pc = "responded" /\ upStatus # 0 /\ ~Ok(upStatus)) =>
    response.kind = "json" /\ response.status = upStatus

RunStarts(ms) == { i \in 1..Len(ms) : i = 1 \/ ms[i].role # ms[i-1].role }
\* the k-th run of ms is ms[RunStart(ms, k)] .. ms[RunEnd(ms, k)]
RunStart(ms, k) ==
  CHOOSE i \in RunStarts(ms) : Cardinality({ j \in RunStarts(ms) : j <= i }) = k
RunEnd(ms, k) ==
  IF k = Cardinality(RunStarts(ms)) THEN Len(ms) ELSE RunStart(ms, k + 1) - 1
RECURSIVE JoinContents(_, _, _)
JoinContents(ms, from, to) ==
  IF from = to THEN ms[from].content
  ELSE ms[from].content \o <<NL>> \o JoinContents(ms, from + 1, to)

\* C10: each maximal run of same-role elements of the candidate sequence becomes
\* exactly one output element, with the run's role and the run's contents joined
\* in order by a newline; one element per run, in input order.
C10_RunsMerged ==
  pc = "normalized" =>
    /\ Len(history) = Cardinality(RunStarts(Candidate))
    /\ \A k \in 1..Len(history) :
         /\ history[k].role = Candidate[RunStart(Candidate, k)].role
         /\ history[k].content =
              JoinContents(Candidate, RunStart(Candidate, k), RunEnd(Candidate, k))
C10_Witness ==
  /\ pc = "normalized"
  /\ Len(history) = 3
  /\ \E k \in 1..Len(history) : RunEnd(Candidate, k) >= RunStart(Candidate, k) + 2

----------------------------------------------------------------------------
(* Claims about the outbound stream *)

RECURSIVE Flatten(_)
Flatten(chunks) == IF chunks = <<>> THEN <<>> ELSE Head(chunks) \o Flatten(Tail(chunks))
\* the text of the outbound stream: what the consumer got, then what is queued
Outbound == Flatten(delivered \o stream.queue)

\* the segments the specification gives one event
Segments(ev) ==
  IF ev.data = "json" /\ ev.json = "delta"
  THEN (IF ev.reasoning_content # ""
        THEN <<"[Reasoning]", ev.reasoning_content, "[/Reasoning]">> ELSE <<>>)
       \o (IF ev.content # "" THEN <<"[Content]", ev.content, "[/Content]">> ELSE <<>>)
  ELSE <<>>
RECURSIVE Expected(_)
Expected(evs) == IF evs = <<>> THEN <<>> ELSE Segments(Head(evs)) \o Expected(Tail(evs))

\* keep-alive events and events whose data is valid JSON, then one [DONE]
DoneTerminated(evs) ==
  /\ Len(evs) >= 1 /\ evs[Len(evs)] = EvDone
  /\ \A i \in 1..(Len(evs) - 1) :
       evs[i].data = "keep-alive" \/ (evs[i].data = "json" /\ evs[i].json # "invalid")

\* C1: for keep-alive and JSON events terminated by [DONE], the outbound stream
\* is the concatenation of the events' segments in arrival order, reasoning
\* first within an event, and the stream is then closed.
C1_OutboundIsConcatenation ==
  (spc = "finished" /\ upEnd # "failed" /\ DoneTerminated(fed)) =>
    /\ Outbound = Expected(fed)
    /\ stream.closeRequested /\ stream.state # "errored"

\* C4: when the upstream reader signals completion with no [DONE] and no parse
\* failure before, the outbound stream is closed or closing.
C4_EndWithoutDoneCloses ==
  (spc = "finished" /\ upEnd = "done"
     /\ \A i \in 1..Len(fed) : fed[i] \notin {EvDone, EvText, EvNull}) =>
    stream.state = "closed" \/ stream.closeRequested

NoticeCount(chunks) == Cardinality({ i \in 1..Len(chunks) : chunks[i] = NoticeChunk })
\* an event that is not valid JSON was handled while the stream was still open
ParseFailureHandled ==
  \E i \in 1..Len(handled) :
    /\ handled[i] = EvText
    /\ \A j \in 1..(i - 1) : handled[j] \notin {EvDone, EvText, EvNull}

\* C5: after an event that is not valid JSON the outbound stream holds exactly
\* one parse-error notice and is closed, whatever events follow it.
C5_OneNoticeThenClosed ==
  (ParseFailureHandled /\ upEnd # "failed" /\ \A i \in 1..Len(fed) : fed[i] # EvNull) =>
    /\ NoticeCount(delivered \o stream.queue) = 1
    /\ stream.closeRequested /\ stream.state # "errored"

\* C9: a transport failure of a read of the upstream body, at any point, leaves
\* the outbound stream errored with the StreamFailure error.
C9_ReadFailureErrorsStream ==
  upEnd = "failed" =>
    stream.state = "errored" /\ stream.storedError = API_ERROR_MESSAGES.STREAM_FAILED

----------------------------------------------------------------------------
(* Claims about the normalizer, continued *)

\* C11: normalizeMessages is idempotent: applied to its own output, or to a
\* sequence with no two adjacent equal roles, it returns the same length, roles
\* and contents.
C11_NormalizeIdempotent ==
  [][ /\ (pc = "norm" /\ pc' = "normalized" /\ ~HasAdjacentEqualRoles(Candidate))
           => (history' = Candidate /\ normErr' = NoError)
      /\ (pc = "normalized" /\ pc' = "renormalized")
           => (history' = history /\ normErr' = NoError) ]_vars
C11_Witness ==
  /\ pc = "renormalized"
  /\ HasAdjacentEqualRoles(Candidate)
  /\ Len(history) = 3

\* C19: the normalized history ends with a user element whose content ends with
\* the input: appended after a newline to the last client message when that one
\* has role user, the whole last element otherwise.
C19_EndsWithUserInput ==
  pc = "normalized" =>
    LET last == history[Len(history)]
        n == Len(req.messages)
    IN /\ Len(history) >= 2
       /\ last.role = "user"
       /\ IF n > 0 /\ req.messages[n].role = "user"
          THEN LET c == last.content
                   m == req.messages[n].content
                   k == Len(c) - Len(req.input)
               IN /\ k >= Len(m) + 1
                  /\ SubSeq(c, k + 1, Len(c)) = req.input
                  /\ c[k] = NL
                  /\ SubSeq(c, k - Len(m), k - 1) = m
          ELSE last.content = req.input
C19_Witness ==
  /\ pc = "normalized"
  /\ Len(req.messages) = 2
  /\ req.messages[1].role = "assistant" /\ req.messages[2].role = "user"
  /\ Len(history) = 3

----------------------------------------------------------------------------
(* Claims about the outbound stream, continued *)

RECURSIVE WithoutKeepAlive(_)
WithoutKeepAlive(chunk) ==
  IF chunk = <<>> THEN <<>>
  ELSE IF Head(chunk).data = "keep-alive" THEN WithoutKeepAlive(Tail(chunk))
  ELSE <<Head(chunk)>> \o WithoutKeepAlive(Tail(chunk))
\* the events of the upstream chunk read by the current step
ChunkOfStep == SubSeq(fed', Len(fed) + 1, Len(fed'))

\* C12: a keep-alive event changes nothing: a chunk leaves the outbound stream as
\* the same chunk without its keep-alive events does (a chunk of keep-alives
\* leaves the stream, its emitted chunks and the read loop as they were), so
\* the events after a keep-alive are still re-framed.
C12_KeepAliveChangesNothing ==
  [][ fed' # fed =>
        LET K == [st |-> stream, rr |-> readReqs, dl |-> delivered, thrown |-> FALSE]
            F == Feed(K, WithoutKeepAlive(ChunkOfStep), 0)
            R == IF F.K.thrown THEN StartCatch(F.K) ELSE F.K
        IN /\ stream' = R.st /\ delivered' = R.dl /\ readReqs' = R.rr
           /\ (spc' = "reading") = ~F.K.thrown ]_vars
C12_Witness ==
  /\ Len(handled) = 2
  /\ handled[1] = EvKeepAlive /\ handled[2] = EvDelta("r1", "c1")
  /\ stream.state = "readable" /\ ~stream.closeRequested /\ spc = "reading"
  /\ Outbound = Expected(handled)

\* no event fed so far has the JSON payload null
NoNullFed == \A i \in 1..Len(fed) : fed[i] # EvNull

\* C15: after the first [DONE] event has been parsed no further upstream event
\* is handled, in the same chunk or a later one, and the stream is closed.
C15_NothingHandledAfterDone ==
  NoNullFed =>
    \A i \in 1..Len(handled) :
      handled[i] = EvDone => (i = Len(handled) /\ stream.closeRequested)

\* C16: the upstream body is read lazily: a read of the upstream happens only
\* when the consumer has taken everything produced so far.
C16_ReadsOnlyOnPull ==
  [][ (NoNullFed' /\ (fed' # fed \/ upEnd' # upEnd)) => stream.queue = <<>> ]_vars

\* close() or error() has been called on the outbound stream
Terminated == stream.closeRequested \/ stream.state \in {"closed", "errored"}

\* C20: once the outbound stream is closed or errored, no later upstream event,
\* completion or failure appends a chunk to it or moves it to another state.
C20_TerminalStatesAbsorbing ==
  [][ (Terminated /\ NoNullFed' /\ (fed' # fed \/ upEnd' # upEnd)) =>
        /\ stream'.state = stream.state
        /\ stream'.storedError = stream.storedError
        /\ Flatten(delivered' \o stream'.queue) = Outbound ]_vars

----------------------------------------------------------------------------
(* Claims about the request, continued *)

\* C13: at most one upstream completion request is issued for a request, on
\* every path; nothing is retried.
C13_SingleUpstreamAttempt ==
  /\ upCalls <= 1
  /\ (upStatus # 0 \/ aborted \/ spc # "none") => upCalls = 1
C13_Witness ==
  /\ upCalls = 1 /\ upEnd = "failed" /\ stream.state = "errored" /\ handled # <<>>

\* the request fails validateAndParseRequest
Stage1Fails ==
  req.parse # "ok" \/ req.prompt = <<>> \/ ~req.isArray \/ req.input = <<>>
\* the client messages the reasoning-content check stops at
Offending == { i \in 1..Len(req.messages) :
                 req.messages[i].isNull \/ req.messages[i].reasoning # <<>> }
FirstOffending == CHOOSE i \in Offending : \A j \in Offending : i <= j

\* the status of the JSON error response, from what happened to the request
ExpectedErrorStatus ==
  IF upCalls = 0
  THEN IF Stage1Fails THEN 400
       ELSE IF Offending # {}
            THEN (IF req.messages[FirstOffending].isNull THEN 500 ELSE 400)
       ELSE 500
  ELSE IF aborted THEN 408
  ELSE IF upStatus = 0 THEN 500
  ELSE IF response.error = "TypeError" THEN 500
  ELSE upStatus

\* C14: every request receives exactly one response, a 200 response carrying the
\* stream or the JSON error response, whose status is that of the domain error
\* and 500 for any other failure; a 200 response always carries a stream.
C14_ResponseShape ==
  /\ (pc = "responded") = (response # NoResponse)
  /\ response.kind = "stream" =>
       (response.status = 200 /\ upCalls = 1 /\ Ok(upStatus) /\ ~aborted)
  /\ response.status = 200 => response.kind = "stream"
  /\ response.kind = "json" => response.status = ExpectedErrorStatus
C14_ExactlyOneResponse ==
  /\ []C14_ResponseShape
  /\ [][response # NoResponse => response' = response]_vars
  /\ <>(response # NoResponse)
C14_Witness ==
  /\ response.kind = "json" /\ response.status = 500
  /\ upCalls = 1 /\ upStatus = 0 /\ ~aborted

\* C17: the stages run in the order validation, reasoning-content check,
\* normalization, configuration, upstream call; the upstream request is issued
\* only when all earlier stages succeeded and the earliest failing stage decides
\* the response: 400 for a validation failure also when the credential is
\* absent, 500 and no upstream call for an absent credential.
C17_StageOrder ==
  /\ upCalls >= 1 => (~Stage1Fails /\ Offending = {} /\ normErr = NoError /\ apiKey)
  /\ (pc = "responded" /\ Stage1Fails) =>
       /\ response.kind = "json" /\ response.status = 400
       /\ response.error = "INVALID_PARAMS" /\ upCalls = 0
  /\ (pc = "responded" /\ ~Stage1Fails /\ HasReasoning) =>
       /\ response.kind = "json" /\ response.status = 400
       /\ response.error = API_ERROR_MESSAGES.REASONING_CONTENT_NOT_ALLOWED /\ upCalls = 0
  /\ (pc = "responded" /\ ~Stage1Fails /\ Offending = {} /\ ~apiKey) =>
       /\ response.kind = "json" /\ response.status = 500
       /\ response.error = "KEY_NOT_CONFIGURED" /\ upCalls = 0
\* C18: the timer is cleared on every exit path of createDeepSeekStream: once
\* the response is returned no timer is armed, and no abort is issued while
\* the upstream body is streamed.
C18_NoAbortWhileStreaming ==
  /\ pc = "responded" => timer # "armed"
  /\ spc # "none" => (timer = "cleared" /\ ~aborted)
  /\ aborted => (response.kind = "json" /\ spc = "none")
C18_Witness ==
  /\ spc = "reading" /\ fed # <<>> /\ timer = "cleared" /\ ~aborted

====
